---------------------------- MODULE Spec2Model ----------------------------
(***************************************************************************)
(* Model of src/fetch_remote_tag/remote-tag-fetch.py: a sequential script  *)
(* that checks for the skopeo tool, loads config.yaml, and for every       *)
(* (registry, image) pair lists the remote tags, sorts them with a         *)
(* version-aware key and prints the first max of them.                     *)
(*                                                                         *)
(* A tag is a sequence of one-character strings.  The characters are the   *)
(* ASCII characters of Alphabet; on them Python's str.isdigit() and the    *)
(* regular expression class \d agree.                                      *)
(***************************************************************************)
EXTENDS Integers, Sequences, FiniteSets, TLC

VARIABLES
    pc,           \* position of main(): "check_tool", "load_config", "loop", "exited";
                  \* "sort_call"/"sort_done" for the sorting step taken alone
    exit_code,    \* exit status of the process, -1 while it runs
    exit_reason,  \* why the process ended: "running", "no_tool", "config_not_found",
                  \* "yaml_error", "done", or the name of an uncaught exception
    config,       \* the value yaml.safe_load returned for config.yaml
    max_tags,     \* main's local max_tags
    next_pair,    \* index, in iteration order, of the next (registry, image) pair
    trace,        \* what the process has done so far, in order: lines printed to
                  \* stdout, subprocess.run calls (with what they returned), open()
    tags,         \* fetch_tags' local tags (of the last call)
    sorted_tags   \* fetch_tags' local sorted_tags (of the last call)

vars == <<pc, exit_code, exit_reason, config, max_tags, next_pair, trace, tags, sorted_tags>>

-----------------------------------------------------------------------------
(* Bounds *)

\* longest tag enumerated for the sort
MaxTagLen == 3
\* longest list over SmallTags enumerated for the sort
MaxListLen == 3
\* longest tag list the tool returns in the pipeline
MaxFetched == 4
\* largest max in config.yaml
MaxMax == 4

\* config.get('max', 3)
DefaultMax == 3

-----------------------------------------------------------------------------
(* Characters and strings *)

Digits == {"0", "1", "2", "9"}
Alphabet == {"0", "1", "2", "9", ".", "-", "a", "c", "r", "v"}

\* the characters tags are enumerated over
EnumAlphabet == {"0", "1", ".", "a"}

\* ord(c): the code point, which is what Python compares strings by
Ord(c) ==
    CASE c = "-" -> 45
      [] c = "." -> 46
      [] c = "0" -> 48
      [] c = "1" -> 49
      [] c = "2" -> 50
      [] c = "9" -> 57
      [] c = "a" -> 97
      [] c = "c" -> 99
      [] c = "r" -> 114
      [] c = "v" -> 118

\* c matches \d
IsDigitChar(c) == c \in Digits

DigitVal(c) ==
    CASE c = "0" -> 0
      [] c = "1" -> 1
      [] c = "2" -> 2
      [] c = "9" -> 9

\* part.isdigit(): non-empty and every character a digit
isdigit(part) == Len(part) > 0 /\ \A i \in 1..Len(part) : IsDigitChar(part[i])

\* int(part) of a string of digits (Python integers do not overflow)
RECURSIVE int(_)
int(part) ==
    IF Len(part) = 0 THEN 0
    ELSE 10 * int(SubSeq(part, 1, Len(part) - 1)) + DigitVal(part[Len(part)])

\* length of the longest prefix of s of digits (d = TRUE) or of non-digits
RECURSIVE RunLen(_, _)
RunLen(s, d) ==
    IF Len(s) = 0 \/ IsDigitChar(s[1]) # d THEN 0
    ELSE 1 + RunLen(Tail(s), d)

\* a variant of re_split that drops empty strings, as re.findall(r'\d+|\D+') would
RECURSIVE re_split_nonempty(_)
re_split_nonempty(s) ==
    IF Len(s) = 0 THEN <<>>
    ELSE LET n == IF IsDigitChar(s[1]) THEN RunLen(s, TRUE) ELSE RunLen(s, FALSE)
         IN  <<SubSeq(s, 1, n)>> \o re_split_nonempty(SubSeq(s, n + 1, Len(s)))

\* re.split(r'(\d+)', s): the text between digit runs, possibly empty, alternating
\* with the digit runs (the capture group keeps them); always an odd number of parts
RECURSIVE re_split(_)
re_split(s) ==
    LET n    == RunLen(s, FALSE)
        rest == SubSeq(s, n + 1, Len(s))
        m    == RunLen(rest, TRUE)
    IN  IF Len(rest) = 0 THEN <<SubSeq(s, 1, n)>>
        ELSE <<SubSeq(s, 1, n), SubSeq(rest, 1, m)>>
                 \o re_split(SubSeq(rest, m + 1, Len(rest)))

\* one element of a key: an int (num) or a str
IntSeg(n) == [num |-> TRUE, val |-> n, str |-> <<>>]
StrSeg(s) == [num |-> FALSE, val |-> 0, str |-> s]

\* a variant of parse_version that leaves the digit runs as text
parse_version_text(version) ==
    LET parts == re_split(version)
    IN  [i \in 1..Len(parts) |-> StrSeg(parts[i])]

\* parse_version(version): int(part) if part.isdigit() else part, for each part
parse_version(version) ==
    LET parts == re_split(version)
    IN  [i \in 1..Len(parts) |->
            IF isdigit(parts[i]) THEN IntSeg(int(parts[i])) ELSE StrSeg(parts[i])]

-----------------------------------------------------------------------------
(* Python's comparison of keys *)

\* str < str: by code point, a proper prefix is smaller
RECURSIVE StrLess(_, _)
StrLess(a, b) ==
    IF Len(b) = 0 THEN FALSE
    ELSE IF Len(a) = 0 THEN TRUE
    ELSE IF a[1] # b[1] THEN Ord(a[1]) < Ord(b[1])
    ELSE StrLess(Tail(a), Tail(b))

\* x < y on key elements: "TypeError" between an int and a str
SegLess(x, y) ==
    IF x.num # y.num THEN "TypeError"
    ELSE IF x.num THEN (IF x.val < y.val THEN "True" ELSE "False")
    ELSE (IF StrLess(x.str, y.str) THEN "True" ELSE "False")

\* a < b on tuples: the first index where the elements are not equal decides
\* (== between an int and a str is False, never an error); without one the
\* shorter tuple is smaller
RECURSIVE TupleLess(_, _)
TupleLess(a, b) ==
    IF Len(a) = 0 THEN (IF Len(b) > 0 THEN "True" ELSE "False")
    ELSE IF Len(b) = 0 THEN "False"
    ELSE IF a[1] # b[1] THEN SegLess(a[1], b[1])
    ELSE TupleLess(Tail(a), Tail(b))

\* key(a) < key(b) for two tags
KeyLess(a, b) == TupleLess(parse_version(a), parse_version(b))

\* some comparison the sort may make raises TypeError (which pairs the list sort
\* compares is its own business: any pair of elements may be compared)
SortRaises(list) ==
    \E i, j \in 1..Len(list) : KeyLess(list[i], list[j]) = "TypeError"

Reverse(s) == [i \in 1..Len(s) |-> s[Len(s) + 1 - i]]

\* x inserted into the ascending list s behind every element that is not greater
RECURSIVE InsertAsc(_, _)
InsertAsc(s, x) ==
    IF Len(s) = 0 THEN <<x>>
    ELSE IF KeyLess(x, s[1]) = "True" THEN <<x>> \o s
    ELSE <<s[1]>> \o InsertAsc(Tail(s), x)

\* the stable ascending sort by key: equal keys keep their order
RECURSIVE SortAsc(_)
SortAsc(list) ==
    IF Len(list) = 0 THEN <<>>
    ELSE InsertAsc(SortAsc(SubSeq(list, 1, Len(list) - 1)), list[Len(list)])

\* variants of sorted: without reverse=True, and sorted(...)[::-1]
sorted_ascending(list) == SortAsc(list)
sorted_then_reversed(list) == Reverse(SortAsc(list))

\* sorted(list, key=parse_version, reverse=True): the list is reversed, sorted
\* stably in ascending order and reversed again, which keeps equal keys in
\* their original order
sorted(list) == Reverse(SortAsc(Reverse(list)))


\* a variant of the slice that takes one element too many
Slice_one_more(s, m) ==
    SubSeq(s, 1, IF m + 1 < Len(s) THEN m + 1 ELSE Len(s))

\* s[:m]: the first m elements, all of s when it has fewer; for a negative m
\* all but the last -m elements
Slice(s, m) ==
    IF m >= 0 THEN SubSeq(s, 1, IF m < Len(s) THEN m ELSE Len(s))
    ELSE SubSeq(s, 1, IF Len(s) + m > 0 THEN Len(s) + m ELSE 0)

-----------------------------------------------------------------------------
(* The environment: config.yaml and the registries behind skopeo *)

\* tags a registry may list, in the order it reports them
SampleTags == <<
    <<"1", ".", "2", ".", "0">>,
    <<"1", ".", "1", "0", ".", "0">>,
    <<"1", ".", "9", ".", "0">>,
    <<"1", ".", "0", "1">>,
    <<"1", ".", "1">>,
    <<"v", "2">>,
    <<"v", "1", "0">>,
    <<"1", ".", "2", ".", "0", "-", "r", "c", "1">>
>>

\* what subprocess.run(['skopeo', 'list-tags', ...]) can come back with: a
\* non-zero exit (check=True raises CalledProcessError), or exit 0 with a stdout
\* that is not YAML, that parses to something that is no mapping (nothing at
\* all parses to None), to a mapping without 'Tags', with Tags: null, or with a
\* list of tag strings
ToolResult(rc, stdout, list) == [rc |-> rc, stdout |-> stdout, tags |-> list]
NoResult == ToolResult(0, "none", <<>>)
FetchLists == {<<>>} \cup {SubSeq(SampleTags, 1, n) : n \in 1..MaxFetched}
ToolResults ==
    {ToolResult(1, "none", <<>>)}
      \cup {ToolResult(0, k, <<>>) : k \in {"unparseable", "not_mapping", "no_tags_key", "tags_null"}}
      \cup {ToolResult(0, "tags_list", l) : l \in FetchLists}

RegistryEntry(r, imgs) == [registry |-> r, images |-> imgs]

\* the 'registries' lists of the configurations examined
RegistryLayouts == {
    <<>>,
    <<RegistryEntry("r1", <<>>)>>,
    <<RegistryEntry("r1", <<"i1">>)>>,
    <<RegistryEntry("r1", <<"i1", "i2">>)>>,
    <<RegistryEntry("r1", <<"i1">>), RegistryEntry("r2", <<"i1">>)>>,
    <<RegistryEntry("r1", <<"i2", "i1">>), RegistryEntry("r2", <<"i1">>)>>,
    <<RegistryEntry("r1", <<"i1">>), RegistryEntry("r1", <<"i1", "i2">>)>>,
    <<RegistryEntry("r2", <<>>), RegistryEntry("r1", <<"i2", "i1", "i1">>)>> }

\* the 'max' key: absent (<<>>) or an integer (<<m>>)
MaxOptions == {<<>>} \cup {<<m>> : m \in (0 - 1)..MaxMax}

\* what yaml.safe_load(file) returns for config.yaml: None for an empty file,
\* or a mapping that may lack 'max' and may lack 'registries'
ParsedConfig(isnull, mx, hasregs, regs) ==
    [null |-> isnull, max |-> mx, has_registries |-> hasregs, registries |-> regs]
NoConfig == ParsedConfig(TRUE, <<>>, FALSE, <<>>)
ParsedConfigs ==
    {NoConfig}
      \cup {ParsedConfig(FALSE, mx, FALSE, <<>>) : mx \in MaxOptions}
      \cup {ParsedConfig(FALSE, mx, TRUE, regs) : mx \in MaxOptions, regs \in RegistryLayouts}

\* what opening and parsing config.yaml can come to
ConfigFiles ==
    {[state |-> "not_found", value |-> NoConfig], [state |-> "yaml_error", value |-> NoConfig]}
      \cup {[state |-> "parsed", value |-> c] : c \in ParsedConfigs}

-----------------------------------------------------------------------------
(* What the process does, as it is seen from outside *)

Event(ev, kind, registry, image, num, tag, result) ==
    [ev |-> ev, kind |-> kind, registry |-> registry, image |-> image,
     num |-> num, tag |-> tag, result |-> result]

\* print(...) of one line
PrintNotInstalled == Event("print", "not_installed", "", "", 0, <<>>, NoResult)
PrintConfigNotFound == Event("print", "config_not_found", "", "", 0, <<>>, NoResult)
PrintYamlError == Event("print", "yaml_error", "", "", 0, <<>>, NoResult)
PrintFetching(registry, image) == Event("print", "fetching", registry, image, 0, <<>>, NoResult)
PrintError(registry, image) == Event("print", "error", registry, image, 0, <<>>, NoResult)
PrintNoTags(registry, image) == Event("print", "no_tags", registry, image, 0, <<>>, NoResult)
PrintHeader(image, m) == Event("print", "header", "", image, m, <<>>, NoResult)
PrintTag(tag) == Event("print", "tag", "", "", 0, tag, NoResult)
PrintBlank == Event("print", "blank", "", "", 0, <<>>, NoResult)

\* subprocess.run(['which', 'skopeo']) and its return code
RunWhich(rc) == Event("run", "which", "", "", rc, <<>>, NoResult)
\* open('config.yaml', 'r')
OpenConfig == Event("open", "config.yaml", "", "", 0, <<>>, NoResult)
\* subprocess.run(['skopeo', 'list-tags', '--no-creds', docker://registry/image])
RunSkopeo(registry, image, result) == Event("run", "skopeo", registry, image, 0, <<>>, result)

\* for tag in ...: print(tag)
PrintTags(list) == [i \in 1..Len(list) |-> PrintTag(list[i])]

\* a variant of Pairs that walks the registries from the last to the first
RECURSIVE Pairs_registries_reversed(_)
Pairs_registries_reversed(regs) ==
    IF Len(regs) = 0 THEN <<>>
    ELSE Pairs_registries_reversed(Tail(regs))
           \o [i \in 1..Len(regs[1].images) |->
                  [registry |-> regs[1].registry, image |-> regs[1].images[i]]]

\* the (registry, image) pairs in the order the nested loops of main reach them
RECURSIVE Pairs(_)
Pairs(regs) ==
    IF Len(regs) = 0 THEN <<>>
    ELSE [i \in 1..Len(regs[1].images) |->
             [registry |-> regs[1].registry, image |-> regs[1].images[i]]]
           \o Pairs(Tail(regs))

-----------------------------------------------------------------------------
(* The script *)

Init ==
    /\ pc = "check_tool"
    /\ exit_code = 0 - 1
    /\ exit_reason = "running"
    /\ config = NoConfig
    /\ max_tags = 0
    /\ next_pair = 1
    /\ trace = <<>>
    /\ tags = <<>>
    /\ sorted_tags = <<>>

\* sys.exit(code), or an exception nothing catches (the interpreter prints the
\* traceback on stderr and exits with status 1)
Exit(code, reason) ==
    /\ pc' = "exited"
    /\ exit_code' = code
    /\ exit_reason' = reason

\* check_command_exists(command): the return code of 'which' is 0
check_command_exists(returncode) == returncode = 0

\* a variant of CheckTool that reports the missing tool and goes on
CheckTool_no_exit ==
    /\ pc = "check_tool"
    /\ \E returncode \in {0, 1} :
          trace' = trace \o <<RunWhich(returncode)>>
                     \o (IF check_command_exists(returncode) THEN <<>>
                         ELSE <<PrintNotInstalled>>)
    /\ pc' = "load_config"
    /\ UNCHANGED <<exit_code, exit_reason, config, max_tags, next_pair, tags, sorted_tags>>

\* main, lines 47-50: if not check_command_exists('skopeo'): print, sys.exit(1)
CheckTool ==
    /\ pc = "check_tool"
    /\ \E returncode \in {0, 1} :
          IF check_command_exists(returncode)
          THEN /\ trace' = trace \o <<RunWhich(returncode)>>
               /\ pc' = "load_config"
               /\ UNCHANGED <<exit_code, exit_reason>>
          ELSE /\ trace' = trace \o <<RunWhich(returncode), PrintNotInstalled>>
               /\ Exit(1, "no_tool")
    /\ UNCHANGED <<config, max_tags, next_pair, tags, sorted_tags>>

\* main, lines 52-66: the configuration is opened and parsed, max_tags is read and
\* the loop over config['registries'] is entered
LoadConfig ==
    /\ pc = "load_config"
    /\ \E f \in ConfigFiles :
          CASE f.state = "not_found" ->
                 /\ trace' = trace \o <<OpenConfig, PrintConfigNotFound>>
                 /\ Exit(1, "config_not_found")
                 /\ UNCHANGED <<config, max_tags>>
            [] f.state = "yaml_error" ->
                 /\ trace' = trace \o <<OpenConfig, PrintYamlError>>
                 /\ Exit(1, "yaml_error")
                 /\ UNCHANGED <<config, max_tags>>
            [] f.state = "parsed" ->
                 /\ trace' = trace \o <<OpenConfig>>
                 /\ config' = f.value
                 /\ IF f.value.null
                    THEN \* None.get
                         /\ Exit(1, "AttributeError")
                         /\ UNCHANGED max_tags
                    ELSE /\ max_tags' = IF Len(f.value.max) = 0 THEN DefaultMax ELSE f.value.max[1]
                         /\ IF ~f.value.has_registries
                            THEN \* config['registries']
                                 Exit(1, "KeyError")
                            ELSE IF Len(Pairs(f.value.registries)) = 0
                            THEN Exit(0, "done")
                            ELSE /\ pc' = "loop"
                                 /\ UNCHANGED <<exit_code, exit_reason>>
    /\ UNCHANGED <<next_pair, tags, sorted_tags>>

\* fetch_tags returned: the next pair, or the end of main
Return ==
    /\ next_pair' = next_pair + 1
    /\ IF next_pair = Len(Pairs(config.registries))
       THEN Exit(0, "done")
       ELSE UNCHANGED <<pc, exit_code, exit_reason>>

\* main, line 69: fetch_tags(registry, image, max_tags) for the next pair of the
\* loop, lines 15-44
fetch_tags ==
    /\ pc = "loop"
    /\ LET pair == Pairs(config.registries)[next_pair]
           registry == pair.registry
           image == pair.image
       IN \E result \in ToolResults :
            LET called == trace \o <<PrintFetching(registry, image),
                                     RunSkopeo(registry, image, result)>>
            IN  IF result.rc # 0
                THEN \* except subprocess.CalledProcessError
                     /\ trace' = called \o <<PrintError(registry, image)>>
                     /\ Return
                     /\ UNCHANGED <<tags, sorted_tags>>
                ELSE IF result.stdout \in {"unparseable", "not_mapping", "no_tags_key"}
                THEN \* yaml.safe_load(result.stdout)['Tags'] raises
                     /\ trace' = called
                     /\ Exit(1, CASE result.stdout = "unparseable" -> "YAMLError"
                                  [] result.stdout = "not_mapping" -> "TypeError"
                                  [] result.stdout = "no_tags_key" -> "KeyError")
                     /\ UNCHANGED <<next_pair, tags, sorted_tags>>
                ELSE IF Len(result.tags) = 0
                THEN \* not tags: None or an empty list
                     /\ tags' = result.tags
                     /\ trace' = called \o <<PrintNoTags(registry, image)>>
                     /\ Return
                     /\ UNCHANGED sorted_tags
                ELSE IF SortRaises(result.tags)
                THEN /\ tags' = result.tags
                     /\ trace' = called
                     /\ Exit(1, "TypeError")
                     /\ UNCHANGED <<next_pair, sorted_tags>>
                ELSE /\ tags' = result.tags
                     /\ sorted_tags' = sorted(result.tags)
                     /\ trace' = called \o <<PrintHeader(image, max_tags)>>
                                   \o PrintTags(Slice(sorted(result.tags), max_tags))
                                   \o <<PrintBlank>>
                     /\ Return
    /\ UNCHANGED <<config, max_tags>>

Next == CheckTool \/ LoadConfig \/ fetch_tags

Spec == Init /\ [][Next]_vars

-----------------------------------------------------------------------------
(* The sort of line 38 taken alone, over enumerated tag lists *)

\* all strings over EnumAlphabet of length at most n
RECURSIVE StringsUpTo(_)
StringsUpTo(n) ==
    IF n = 0 THEN {<<>>}
    ELSE LET shorter == StringsUpTo(n - 1)
         IN  shorter \cup {Append(t, c) : t \in shorter, c \in EnumAlphabet}

\* all lists over S of length at most n
RECURSIVE ListsUpTo(_, _)
ListsUpTo(S, n) ==
    IF n = 0 THEN {<<>>}
    ELSE LET shorter == ListsUpTo(S, n - 1)
         IN  shorter \cup {Append(l, t) : l \in shorter, t \in S}

\* tags with equal and with close keys
SmallTags == {<<"1">>, <<"0", "1">>, <<"2">>, <<"1", "0">>, <<"1", "a">>}

ExampleLists == {
    SubSeq(SampleTags, 1, 3),
    SubSeq(SampleTags, 4, 5),
    SubSeq(SampleTags, 6, 7),
    <<SampleTags[1], SampleTags[8]>> }

\* the tag lists the sort is applied to: every pair of tags of up to MaxTagLen
\* characters, every list of up to MaxListLen of the SmallTags, and the examples
SortInputs ==
    {<<a, b>> : a \in StringsUpTo(MaxTagLen), b \in StringsUpTo(MaxTagLen)}
      \cup ListsUpTo(SmallTags, MaxListLen)
      \cup ExampleLists

SortInit ==
    /\ pc = "sort_call"
    /\ exit_code = 0 - 1
    /\ exit_reason = "running"
    /\ config = NoConfig
    /\ max_tags = 0
    /\ next_pair = 1
    /\ trace = <<>>
    /\ tags \in SortInputs
    /\ sorted_tags = <<>>

\* line 38: sorted_tags = sorted(tags, key=parse_version, reverse=True)
ApplySort ==
    /\ pc = "sort_call"
    /\ pc' = "sort_done"
    /\ IF SortRaises(tags)
       THEN /\ exit_reason' = "TypeError"
            /\ UNCHANGED sorted_tags
       ELSE /\ sorted_tags' = sorted(tags)
            /\ UNCHANGED exit_reason
    /\ UNCHANGED <<exit_code, config, max_tags, next_pair, trace, tags>>

SortNext == ApplySort

SortSpec == SortInit /\ [][SortNext]_vars

-----------------------------------------------------------------------------
(* Properties of the sort, under SortSpec *)

Min(a, b) == IF a < b THEN a ELSE b

Sorted == pc = "sort_done" /\ exit_reason = "running"

\* the parts of two tags before part p are the same: digit runs (the even parts)
\* as numbers, the text between them as text
AgreeBefore(pa, pb, p) ==
    \A q \in 1..(p - 1) :
        IF q % 2 = 0 THEN int(pa[q]) = int(pb[q]) ELSE pa[q] = pb[q]

\* C1: digit runs are compared as integers. Of two tags of the sorted list whose
\* parts agree before a digit run and whose digit runs there differ in value, the
\* one with the larger value comes first; so v10 comes before v2, and 1.2.0,
\* 1.10.0, 1.9.0 come out as 1.10.0, 1.9.0, 1.2.0.
C1_DigitRunsAsIntegers ==
    pc = "sort_done" =>
        /\ exit_reason = "running"
        /\ Len(sorted_tags) = Len(tags)
        /\ \A i, j \in 1..Len(sorted_tags) :
              LET pa == re_split(sorted_tags[i])
                  pb == re_split(sorted_tags[j])
              IN  \A p \in 1..Min(Len(pa), Len(pb)) :
                      (p % 2 = 0 /\ AgreeBefore(pa, pb, p) /\ int(pa[p]) > int(pb[p]))
                          => i < j
        /\ (tags = SubSeq(SampleTags, 1, 3)
              => sorted_tags = <<SampleTags[2], SampleTags[3], SampleTags[1]>>)
        /\ (tags = SubSeq(SampleTags, 6, 7)
              => sorted_tags = <<SampleTags[7], SampleTags[6]>>)

\* 2 and 10 are sorted to 10, 2: text order would leave 2 first
C1_Witness ==
    /\ pc = "sort_done"
    /\ tags = <<<<"2">>, <<"1", "0">>>>
    /\ sorted_tags = <<<<"1", "0">>, <<"2">>>>

KeysEqual(a, b) == parse_version(a) = parse_version(b)

\* C8: every key has a str at each even index and an int at each odd index
\* (counted from 0; the key has an odd number of elements), so no comparison of
\* two keys meets an int and a str, the order of the keys is total (exactly one
\* of a < b, b < a, a = b) and transitive, and the sort raises no TypeError.
C8_KeysComparable ==
    pc = "sort_done" =>
        /\ exit_reason = "running"
        /\ Len(sorted_tags) = Len(tags)
        /\ \A i \in 1..Len(tags) :
              LET k == parse_version(tags[i])
              IN  /\ Len(k) % 2 = 1
                  /\ \A q \in 1..Len(k) : k[q].num = (q % 2 = 0)
        /\ \A i, j \in 1..Len(tags) :
              i <= j =>
                  LET lt == KeyLess(tags[i], tags[j])
                      gt == KeyLess(tags[j], tags[i])
                  IN  /\ lt \in {"True", "False"}
                      /\ gt \in {"True", "False"}
                      /\ (IF lt = "True" THEN 1 ELSE 0) + (IF gt = "True" THEN 1 ELSE 0)
                           + (IF KeysEqual(tags[i], tags[j]) THEN 1 ELSE 0) = 1
        /\ \A i, j, k \in 1..Len(tags) :
              (i # j /\ j # k /\ i # k
                 /\ KeyLess(tags[i], tags[j]) = "True" /\ KeyLess(tags[j], tags[k]) = "True")
                  => KeyLess(tags[i], tags[k]) = "True"

\* a tag that starts with a digit run and one that starts with text are sorted
C8_Witness ==
    /\ pc = "sort_done"
    /\ tags = <<<<"1", "a">>, <<"a", "1">>>>
    /\ sorted_tags = <<<<"a", "1">>, <<"1", "a">>>>

\* C9: the descending sort is stable. The tags of the sorted list that have one
\* key are in the order the input had them in.
C9_TiesKeepInputOrder ==
    Sorted =>
        \A i \in 1..Len(tags) :
            LET SameKey(t) == KeysEqual(t, tags[i])
            IN  SelectSeq(sorted_tags, SameKey) = SelectSeq(tags, SameKey)

\* 1.01 and 1.1 have one key and stay in the order they came in
C9_Witness ==
    /\ Sorted
    /\ tags = <<SampleTags[4], SampleTags[5]>>
    /\ KeysEqual(tags[1], tags[2])
    /\ tags[1] # tags[2]
    /\ sorted_tags = tags

IsProperPrefix(t, u) == Len(t) < Len(u) /\ SubSeq(u, 1, Len(t)) = t

\* C10: a tag never ranks below one of its proper prefixes. For a tag t and a tag
\* t+s of the list, s not empty, the key of t+s is greater than or equal to the
\* key of t, and unless the keys are equal t+s is listed before t.
C10_PrefixNeverAbove ==
    \A i, j \in 1..Len(tags) :
        IsProperPrefix(tags[i], tags[j]) =>
            /\ KeyLess(tags[j], tags[i]) = "False"
            /\ (Sorted /\ ~KeysEqual(tags[i], tags[j]))
                  => \A a, b \in 1..Len(sorted_tags) :
                        (sorted_tags[a] = tags[j] /\ sorted_tags[b] = tags[i]) => a < b

\* 1.2.0-rc1 is listed above 1.2.0
C10_Witness ==
    /\ Sorted
    /\ tags = <<SampleTags[1], SampleTags[8]>>
    /\ IsProperPrefix(tags[1], tags[2])
    /\ sorted_tags = <<SampleTags[8], SampleTags[1]>>

-----------------------------------------------------------------------------
(* Properties of the run, under Spec *)

IsSkopeoRun(e) == e.ev = "run" /\ e.kind = "skopeo"
IsOpen(e) == e.ev = "open"

\* the skopeo invocations so far, in order
SkopeoRuns == SelectSeq(trace, IsSkopeoRun)

\* the pair of an invocation
PairOf(e) == [registry |-> e.registry, image |-> e.image]

\* config.yaml was opened and parsed
ConfigLoaded ==
    /\ \E p \in 1..Len(trace) : IsOpen(trace[p])
    /\ exit_reason \notin {"config_not_found", "yaml_error"}

\* the pairs config.yaml lists: registries in their order, the images of each in
\* their order
RECURSIVE ListedPairs(_, _, _)
ListedPairs(regs, r, i) ==
    IF r > Len(regs) THEN <<>>
    ELSE IF i > Len(regs[r].images) THEN ListedPairs(regs, r + 1, 1)
    ELSE <<[registry |-> regs[r].registry, image |-> regs[r].images[i]]>>
           \o ListedPairs(regs, r, i + 1)

\* the max of config.yaml, 3 without one
ConfiguredMax == IF Len(config.max) = 0 THEN 3 ELSE config.max[1]

\* the invocation at trace[p] returned a non-empty tag list
ReturnedTags(p) ==
    /\ IsSkopeoRun(trace[p])
    /\ trace[p].result.rc = 0
    /\ trace[p].result.stdout = "tags_list"
    /\ Len(trace[p].result.tags) > 0

\* C5: for a pair whose fetch returns n > 0 tags and a max m >= 0 (3 without a
\* max key), what follows the invocation is the header with m, then exactly the
\* first min(m, n) tags of the descending sorted list, in that order, then the
\* blank line.
C5_FirstMaxTagsPrinted ==
    \A p \in 1..Len(trace) :
        (ReturnedTags(p) /\ ConfiguredMax >= 0) =>
            LET list == sorted(trace[p].result.tags)
                k    == Min(ConfiguredMax, Len(list))
            IN  /\ Len(trace) >= p + k + 2
                /\ trace[p + 1] = PrintHeader(trace[p].image, ConfiguredMax)
                /\ \A q \in 1..k : trace[p + 1 + q] = PrintTag(list[q])
                /\ trace[p + k + 2] = PrintBlank

\* max is 2 and three tags come back: the two highest are printed
C5_Witness ==
    /\ config.max = <<2>>
    /\ \E p \in 1..Len(trace) :
          /\ ReturnedTags(p)
          /\ trace[p].result.tags = SubSeq(SampleTags, 1, 3)
          /\ SubSeq(trace, p + 1, p + 4)
               = <<PrintHeader(trace[p].image, 2), PrintTag(SampleTags[2]),
                   PrintTag(SampleTags[3]), PrintBlank>>

\* C6: the tool check comes first, then the configuration, then the fetches. A
\* failed tool check ends the process with code 1 before config.yaml is opened
\* or anything fetched; a missing or unparseable config.yaml ends it with code 1
\* before anything is fetched.
C6_PreconditionsGateTheRun ==
    /\ \A p \in 1..Len(trace) :
          /\ trace[p] = RunWhich(1) =>
                /\ pc = "exited" /\ exit_code = 1
                /\ \A q \in 1..Len(trace) : ~IsOpen(trace[q]) /\ ~IsSkopeoRun(trace[q])
          /\ trace[p] \in {PrintConfigNotFound, PrintYamlError} =>
                /\ pc = "exited" /\ exit_code = 1
                /\ \A q \in 1..Len(trace) : ~IsSkopeoRun(trace[q])
          /\ IsOpen(trace[p]) => \E q \in 1..(p - 1) : trace[q] = RunWhich(0)
          /\ IsSkopeoRun(trace[p]) => \E q \in 1..(p - 1) : IsOpen(trace[q])
    /\ (exit_reason = "no_tool" => trace = <<RunWhich(1), PrintNotInstalled>>)
    /\ (exit_reason = "config_not_found"
          => trace = <<RunWhich(0), OpenConfig, PrintConfigNotFound>>)
    /\ (exit_reason = "yaml_error" => trace = <<RunWhich(0), OpenConfig, PrintYamlError>>)

\* skopeo is missing: exit code 1, config.yaml never opened
C6_Witness ==
    /\ pc = "exited"
    /\ exit_reason = "no_tool"
    /\ exit_code = 1
    /\ trace = <<RunWhich(1), PrintNotInstalled>>

\* C3 as the specification states it: once the tool check has passed and
\* config.yaml is loaded, the process ends with exit code 0 and has fetched every
\* configured pair, whatever the fetches returned and whatever the configuration
\* holds.
C3_LoadedRunExitsZero ==
    (pc = "exited" /\ ConfigLoaded) =>
        /\ exit_code = 0
        /\ Len(SkopeoRuns) = Len(ListedPairs(config.registries, 1, 1))

\* the invocation at trace[p] exited with 0 and gave no tags: an empty list,
\* Tags: null, or no Tags key
ReturnedNoTags(p) ==
    /\ IsSkopeoRun(trace[p])
    /\ trace[p].result.rc = 0
    /\ \/ trace[p].result.stdout \in {"no_tags_key", "tags_null"}
       \/ trace[p].result.stdout = "tags_list" /\ Len(trace[p].result.tags) = 0

\* the process ended on an exception nothing caught
Aborted ==
    pc = "exited" /\ exit_reason \in {"AttributeError", "KeyError", "TypeError", "YAMLError"}

\* what follows the invocation at trace[p] holds no header and no tag line up to
\* the next invocation
NoTagLinesAfter(p) ==
    \A q \in (p + 1)..Len(trace) :
        (\A x \in (p + 1)..q : ~IsSkopeoRun(trace[x]))
            => trace[q].kind \notin {"header", "tag", "blank"}

\* C4 as the specification states it: an exit 0 with an empty tag list or none
\* at all (Tags absent or null) is followed by the "No tags found" line for that
\* pair and by no header or tag line, and the run goes on.
C4_NoTagsIsReported ==
    \A p \in 1..Len(trace) :
        ReturnedNoTags(p) =>
            /\ Len(trace) > p
            /\ trace[p + 1] = PrintNoTags(trace[p].registry, trace[p].image)
            /\ NoTagLinesAfter(p)
            /\ (Len(trace) = p + 1 => ~Aborted)

\* C2 as the specification states it: a non-zero exit for a pair is followed by
\* the error line for that pair and by no tag line, and when the process has
\* ended fetch_tags has been invoked for every later pair of the configuration.
C2_FetchErrorIsIsolated ==
    \A p \in 1..Len(trace) :
        (IsSkopeoRun(trace[p]) /\ trace[p].result.rc # 0) =>
            /\ Len(trace) > p
            /\ trace[p + 1] = PrintError(trace[p].registry, trace[p].image)
            /\ NoTagLinesAfter(p)
            /\ (pc = "exited"
                  => Len(SkopeoRuns) = Len(ListedPairs(config.registries, 1, 1)))

\* the invocations so far are the first of the listed pairs, in the listed order,
\* each made once
InvokedInListedOrder ==
    LET listed == ListedPairs(config.registries, 1, 1)
    IN  /\ Len(SkopeoRuns) <= Len(listed)
        /\ \A k \in 1..Len(SkopeoRuns) : PairOf(SkopeoRuns[k]) = listed[k]

\* every invocation comes right after the "Fetching" line of its pair, and before
\* that line all output of the pair before it is complete: an error line, a "No
\* tags found" line or a blank line ends it
OutputBeforeNextInvocation ==
    \A p \in 1..Len(trace) :
        IsSkopeoRun(trace[p]) =>
            /\ p > 1
            /\ trace[p - 1] = PrintFetching(trace[p].registry, trace[p].image)
            /\ (p > 2 => trace[p - 2].kind \in {"config.yaml", "error", "no_tags", "blank"})
            /\ \A q \in (p + 1)..Len(trace) :
                  trace[q].kind = "fetching" => q + 1 <= Len(trace) /\ IsSkopeoRun(trace[q + 1])

\* C7 as the specification states it: the tool is invoked for the listed pairs in
\* the listed order, exactly once for each listed occurrence, and the output of a
\* pair is complete before the tool is invoked for the next.
C7_EachPairOnceInOrder ==
    ConfigLoaded /\ ~config.null /\ config.has_registries =>
        /\ InvokedInListedOrder
        /\ OutputBeforeNextInvocation
        /\ (pc = "exited"
              => Len(SkopeoRuns) = Len(ListedPairs(config.registries, 1, 1)))

\* the part of C7 that every run has, aborted or not: order, no second invocation,
\* no interleaving
C7_OrderWithoutCompletion ==
    ConfigLoaded /\ ~config.null /\ config.has_registries =>
        /\ InvokedInListedOrder
        /\ OutputBeforeNextInvocation
        /\ (pc = "exited" /\ exit_code = 0
              => Len(SkopeoRuns) = Len(ListedPairs(config.registries, 1, 1)))

=============================================================================
